---- MODULE Spec2Model ----
(***************************************************************************)
(* Model of reproduce_12858.py: a sequential script that runs three        *)
(* scenarios (host, simulated container, full service), prints a report    *)
(* and exits.  A path is a sequence of components, the file system is the  *)
(* set of existing directories plus the content of every file, and the two *)
(* process-wide globals are Path.home and skill.USER_SKILLS_DIRS.          *)
(***************************************************************************)
EXTENDS Integers, Sequences, FiniteSets, TLC

\* ------------------------------------------------------------------ bounds
\* number of markdown files, other than the fixtures, that may already be
\* present in a directory of the real home when the script starts
MaxExtra == 1

ExtraPool == <<"mine.md", "notes.md", "third.md", "fourth.md">>
ExtraNames == {ExtraPool[i] : i \in 1..MaxExtra}

\* ------------------------------------------------------------ file system
FixturesWithoutCheckpoint == <<"deepsolve.md", "eda.md">>
\* skill1, skill2, skill3 of create_test_skills
Fixtures == <<"deepsolve.md", "eda.md", "checkpoint.md">>
FixtureNames == {Fixtures[i] : i \in 1..Len(Fixtures)}
Names == FixtureNames \cup ExtraNames

\* the content of a file is the sequence of its lines
FixtureText(n) ==
    CASE n = "deepsolve.md" ->
           <<"name: deepsolve", "triggers: deep-solve, analysis", "# Deep Solve Skill">>
      [] n = "eda.md" ->
           <<"name: eda", "triggers: eda, explore-data", "# EDA Skill">>
      [] OTHER ->
           <<"name: checkpoint", "# Checkpoint Skill">>

\* a path with no file behind it
Absent == << >>
StaleText == <<"name: old">>
UserSkillText == <<"name: mine">>

RealHome == <<"home">>
tmpdir == <<"tmp">>
fake_home == Append(tmpdir, "fake_root")
fake_mount == Append(tmpdir, ".openhands")
mount_skills_dir == Append(fake_mount, "skills")

\* home_dir / ".openhands" / "skills"
SkillsDirOf(home) == Append(Append(home, ".openhands"), "skills")
MicroagentsDirOf(home) == Append(Append(home, ".openhands"), "microagents")

FileDirs == {SkillsDirOf(RealHome), MicroagentsDirOf(RealHome), mount_skills_dir,
             SkillsDirOf(fake_home), MicroagentsDirOf(fake_home)}

Prefixes(p) == {SubSeq(p, 1, i) : i \in 1..Len(p)}
IsUnder(p, root) == Len(p) >= Len(root) /\ SubSeq(p, 1, Len(root)) = root

\* Path.write_text: open for writing truncates, so the old content is lost
WriteTextAppend(old, text) == old \o text
WriteText(old, text) == text

\* return [skill1, skill2, skill3]
NumFixtures == 3

NumStages == Len(Fixtures) + 1

\* create_test_skills(skills_dir), stopped by an exception at `stage`:
\* 0 = mkdir raised, k = the k-th write_text raised, NumStages = returned
CreateTestSkills(f, dk, dir, stage) ==
    [files |-> [f EXCEPT ![dir] =
                  [n \in Names |->
                      IF \E i \in 1..(stage - 1) : Fixtures[i] = n
                      THEN WriteText(f[dir][n], FixtureText(n))
                      ELSE f[dir][n]]],
     disk  |-> IF stage = 0 THEN dk ELSE dk \cup Prefixes(dir)]

\* leaving the `with tempfile.TemporaryDirectory()` block removes the tree
RmTreeLeak(f, dk, root) == [files |-> f, disk |-> dk]
RmTree(f, dk, root) ==
    [files |-> [d \in FileDirs |->
                  IF IsUnder(d, root) THEN [n \in Names |-> Absent] ELSE f[d]],
     disk  |-> {d \in dk : ~IsUnder(d, root)}]

\* -------------------------------------------------- external collaborators
Unset == << >>

\* the SDK module body: USER_SKILLS_DIRS = [Path.home()/".openhands"/"skills",
\*                                          Path.home()/".openhands"/"microagents"]
SeedDirs(home) == <<SkillsDirOf(home), MicroagentsDirOf(home)>>

\* load_user_skills(): one record per markdown file of every existing
\* directory of the search-path list
LoadUserSkills(f, dk, dirs) ==
    {<<dirs[i], n>> : i \in 1..Len(dirs), n \in Names} \cap
    {<<d, n>> \in FileDirs \X Names : d \in dk /\ f[d][n] # Absent}

\* ------------------------------------------------------------------ state
VARIABLES files, disk, PathHome, USER_SKILLS_DIRS,
          pc, order, idx,
          original_home, original_dirs, skill_module, skills,
          pending, retval,
          host_works, docker_fails, user_count,
          exitCode, out,
          raisedIn, pre, init0

vars == <<files, disk, PathHome, USER_SKILLS_DIRS, pc, order, idx,
          original_home, original_dirs, skill_module, skills, pending, retval,
          host_works, docker_fails, user_count, exitCode, out,
          raisedIn, pre, init0>>

fsv == <<files, disk>>
globals == <<PathHome, USER_SKILLS_DIRS>>
dockerLocals == <<original_home, original_dirs, skill_module, pending, retval>>
results == <<host_works, docker_fails, user_count>>
ghosts == <<pre, init0>>

Scenarios == {"host", "docker", "full"}

ScenarioOrderSwapped == <<"docker", "host", "full">>
\* main runs the three scenarios in this order
ScenarioOrder == <<"host", "docker", "full">>

FirstLabel(s) ==
    CASE s = "host" -> "h_create"
      [] s = "docker" -> "d_tmp"
      [] OTHER -> "f_create"

\* the real home before the script starts: any of the fixture files may be
\* there already (with the fixture text or another one), next to other
\* markdown files; the temporary tree does not exist yet
HomeFiles(st, ex, mx) ==
    [d \in FileDirs |-> [n \in Names |->
        IF d = SkillsDirOf(RealHome) /\ n \in FixtureNames
        THEN (CASE st[n] = "fixture" -> FixtureText(n)
                [] st[n] = "stale" -> StaleText
                [] OTHER -> Absent)
        ELSE IF d = SkillsDirOf(RealHome) /\ n \in ex THEN UserSkillText
        ELSE IF d = MicroagentsDirOf(RealHome) /\ n \in mx THEN UserSkillText
        ELSE Absent]]

HomeInit ==
    \E st \in [FixtureNames -> {"absent", "stale", "fixture"}],
       ex \in SUBSET ExtraNames, mx \in SUBSET ExtraNames,
       dk \in SUBSET (Prefixes(SkillsDirOf(RealHome)) \cup Prefixes(MicroagentsDirOf(RealHome))) :
        /\ files = HomeFiles(st, ex, mx)
        /\ disk = dk
        /\ RealHome \in dk
        /\ \A d \in dk : Prefixes(d) \subseteq dk
        /\ \A d \in FileDirs :
              (\E n \in Names : HomeFiles(st, ex, mx)[d][n] # Absent) => d \in dk

InitWith(o) ==
    /\ HomeInit
    /\ PathHome = RealHome
    /\ USER_SKILLS_DIRS = Unset
    /\ pc = "main"
    /\ order = o
    /\ idx = 1
    /\ original_home = RealHome
    /\ original_dirs = Unset
    /\ skill_module = FALSE
    /\ skills = [s \in Scenarios |-> 0]
    /\ pending = "none"
    /\ retval = FALSE
    /\ host_works = FALSE
    /\ docker_fails = FALSE
    /\ user_count = 0
    /\ exitCode = -1
    /\ out = << >>
    /\ raisedIn = "none"
    /\ pre = [home |-> RealHome, dirs |-> Unset]
    /\ init0 = [files |-> files, disk |-> disk]

Init == InitWith(ScenarioOrder)

\* ------------------------------------------------------------------- main
\* an exception nobody catches: traceback, exit status 1
Crash(s) ==
    /\ pc' = "crashed"
    /\ exitCode' = 1
    /\ raisedIn' = s

Return(s) ==
    /\ pc' = "main"
    /\ idx' = idx + 1
    /\ out' = Append(out, <<"ret", s>>)

\* main calls the next scenario
MainCall ==
    /\ pc = "main"
    /\ idx <= Len(order)
    /\ pc' = FirstLabel(order[idx])
    /\ out' = Append(out, <<"call", order[idx]>>)
    /\ pre' = IF order[idx] = "docker"
              THEN [home |-> PathHome, dirs |-> USER_SKILLS_DIRS] ELSE pre
    /\ UNCHANGED <<fsv, globals, order, idx, dockerLocals, skills, results,
                   exitCode, raisedIn, init0>>

\* the final report
Report ==
    /\ pc = "main"
    /\ idx > Len(order)
    /\ pc' = "exit"
    /\ out' = Append(out, <<"summary">>)
    /\ UNCHANGED <<fsv, globals, order, idx, dockerLocals, skills, results,
                   exitCode, raisedIn, ghosts>>

ExitStatusInverted(df) == IF df THEN 1 ELSE 0
\* sys.exit(0 if docker_fails else 1)
ExitStatus(df) == IF df THEN 0 ELSE 1

Exit ==
    /\ pc = "exit"
    /\ pc' = "done"
    /\ exitCode' = ExitStatus(docker_fails)
    /\ out' = Append(out, <<"exit">>)
    /\ UNCHANGED <<fsv, globals, order, idx, dockerLocals, skills, results,
                   raisedIn, ghosts>>


\* ---------------------------------------------------------- host scenario
\* home_dir = Path.home(); create_test_skills(home_dir/".openhands"/"skills")
HostCreate ==
    /\ pc = "h_create"
    /\ \E stage \in 0..NumStages :
          LET r == CreateTestSkills(files, disk, SkillsDirOf(PathHome), stage) IN
          /\ files' = r.files
          /\ disk' = r.disk
          /\ IF stage = NumStages
             THEN pc' = "h_import" /\ UNCHANGED <<exitCode, raisedIn>>
             ELSE Crash("host")
    /\ UNCHANGED <<globals, order, idx, dockerLocals, skills, results, out, ghosts>>

\* from openhands.sdk.context.skills.skill import USER_SKILLS_DIRS, load_user_skills
\* the first import of the module runs its body, which reads Path.home()
HostImport ==
    /\ pc = "h_import"
    /\ \E ok \in BOOLEAN :
          /\ (~ok) => USER_SKILLS_DIRS = Unset
          /\ IF ok
             THEN /\ USER_SKILLS_DIRS' = IF USER_SKILLS_DIRS = Unset
                                         THEN SeedDirs(PathHome) ELSE USER_SKILLS_DIRS
                  /\ pc' = "h_load"
                  /\ UNCHANGED <<exitCode, raisedIn>>
             ELSE /\ Crash("host")
                  /\ UNCHANGED USER_SKILLS_DIRS
    /\ UNCHANGED <<fsv, PathHome, order, idx, dockerLocals, skills, results, out, ghosts>>

\* skills = load_user_skills()
HostLoad ==
    /\ pc = "h_load"
    /\ \E ok \in BOOLEAN :
          IF ok
          THEN /\ skills' = [skills EXCEPT !["host"] =
                     Cardinality(LoadUserSkills(files, disk, USER_SKILLS_DIRS))]
               /\ pc' = "h_ret"
               /\ UNCHANGED <<exitCode, raisedIn>>
          ELSE /\ Crash("host")
               /\ UNCHANGED skills
    /\ UNCHANGED <<fsv, globals, order, idx, dockerLocals, results, out, ghosts>>

\* return len(skills) > 0
HostReturn ==
    /\ pc = "h_ret"
    /\ host_works' = (skills["host"] > 0)
    /\ Return("host")
    /\ UNCHANGED <<fsv, globals, order, dockerLocals, skills, docker_fails,
                   user_count, exitCode, raisedIn, ghosts>>

\* ----------------------------------------------------- container scenario
SaveHomeAfterPatch(current) == fake_home
\* original_home = Path.home
SaveHome(current) == current

PatchedDirsAtMount(home) == <<mount_skills_dir, MicroagentsDirOf(home)>>
\* patched_dirs = [fake_home/".openhands"/"skills", fake_home/".openhands"/"microagents"]
PatchedDirs(home) == <<SkillsDirOf(home), MicroagentsDirOf(home)>>

RestoreHomeForgotten(original, current) == current
\* finally: Path.home = original_home
RestoreHome(original, current) == original

RestoreDirsForgotten(original, current) == current
\* finally: skill_module.USER_SKILLS_DIRS = original_dirs
RestoreDirs(original, current) == original

AfterWithSwallowed(p) == "main"
\* TemporaryDirectory.__exit__ does not suppress the exception in flight
AfterWith(p) == IF p = "exc" THEN "crashed" ELSE "main"

\* with tempfile.TemporaryDirectory() as tmpdir
DockerMkdtemp ==
    /\ pc = "d_tmp"
    /\ \E ok \in BOOLEAN :
          IF ok
          THEN /\ disk' = disk \cup {tmpdir}
               /\ pc' = "d_mkdir"
               /\ UNCHANGED <<exitCode, raisedIn>>
          ELSE /\ Crash("docker")
               /\ UNCHANGED disk
    /\ original_home' = RealHome
    /\ original_dirs' = Unset
    /\ skill_module' = FALSE
    /\ pending' = "none"
    /\ retval' = FALSE
    /\ UNCHANGED <<files, globals, order, idx, skills, results, out, ghosts>>

\* fake_home.mkdir()
DockerMkdir ==
    /\ pc = "d_mkdir"
    /\ pc' = "d_create"
    /\ disk' = disk \cup {fake_home}
    /\ UNCHANGED <<files, globals, order, idx, dockerLocals, skills, results,
                   exitCode, out, raisedIn, ghosts>>

\* created = create_test_skills(fake_mount / "skills")
DockerCreate ==
    /\ pc = "d_create"
    /\ \E stage \in 0..NumStages :
          LET r == CreateTestSkills(files, disk, mount_skills_dir, stage) IN
          /\ files' = r.files
          /\ disk' = r.disk
          /\ IF stage = NumStages
             THEN pc' = "d_patch_home" /\ UNCHANGED <<pending, raisedIn>>
             ELSE pc' = "d_cleanup" /\ pending' = "exc" /\ raisedIn' = "docker"
    /\ UNCHANGED <<globals, order, idx, original_home, original_dirs, skill_module,
                   retval, skills, results, exitCode, out, ghosts>>

\* original_home = Path.home; Path.home = staticmethod(lambda: fake_home)
DockerPatchHome ==
    /\ pc = "d_patch_home"
    /\ pc' = "d_import"
    /\ original_home' = SaveHome(PathHome)
    /\ PathHome' = fake_home
    /\ UNCHANGED <<fsv, USER_SKILLS_DIRS, order, idx, original_dirs, skill_module,
                   pending, retval, skills, results, exitCode, out, raisedIn, ghosts>>

\* try: from openhands.sdk.context.skills import skill as skill_module
\* a module imported before is taken from sys.modules; a first import runs
\* the module body under the patched Path.home, or fails
DockerImport ==
    /\ pc = "d_import"
    /\ \E ok \in BOOLEAN :
          /\ (~ok) => USER_SKILLS_DIRS = Unset
          /\ IF ok
             THEN /\ USER_SKILLS_DIRS' = IF USER_SKILLS_DIRS = Unset
                                         THEN SeedDirs(PathHome) ELSE USER_SKILLS_DIRS
                  /\ skill_module' = TRUE
                  /\ pc' = "d_patch_dirs"
                  /\ UNCHANGED <<pending, raisedIn>>
             ELSE /\ pc' = "d_restore_home"
                  /\ pending' = "exc"
                  /\ raisedIn' = "docker"
                  /\ UNCHANGED <<USER_SKILLS_DIRS, skill_module>>
    /\ UNCHANGED <<fsv, PathHome, order, idx, original_home, original_dirs, retval,
                   skills, results, exitCode, out, ghosts>>

\* original_dirs = skill_module.USER_SKILLS_DIRS
\* skill_module.USER_SKILLS_DIRS = patched_dirs
DockerPatchDirs ==
    /\ pc = "d_patch_dirs"
    /\ pc' = "d_load"
    /\ original_dirs' = USER_SKILLS_DIRS
    /\ USER_SKILLS_DIRS' = PatchedDirs(fake_home)
    /\ UNCHANGED <<fsv, PathHome, order, idx, original_home, skill_module, pending,
                   retval, skills, results, exitCode, out, raisedIn, ghosts>>

\* skills = load_user_skills()
DockerLoad ==
    /\ pc = "d_load"
    /\ \E ok \in BOOLEAN :
          IF ok
          THEN /\ skills' = [skills EXCEPT !["docker"] =
                     Cardinality(LoadUserSkills(files, disk, USER_SKILLS_DIRS))]
               /\ pc' = "d_result"
               /\ UNCHANGED <<pending, raisedIn>>
          ELSE /\ pc' = "d_restore_home"
               /\ pending' = "exc"
               /\ raisedIn' = "docker"
               /\ UNCHANGED skills
    /\ UNCHANGED <<fsv, globals, order, idx, original_home, original_dirs,
                   skill_module, retval, results, exitCode, out, ghosts>>

\* if len(skills) == 0: return True  else: return False
DockerResult ==
    /\ pc = "d_result"
    /\ pc' = "d_restore_home"
    /\ retval' = (skills["docker"] = 0)
    /\ pending' = "ret"
    /\ UNCHANGED <<fsv, globals, order, idx, original_home, original_dirs,
                   skill_module, skills, results, exitCode, out, raisedIn, ghosts>>

\* finally: Path.home = original_home
DockerRestoreHome ==
    /\ pc = "d_restore_home"
    /\ pc' = "d_restore_dirs"
    /\ PathHome' = RestoreHome(original_home, PathHome)
    /\ UNCHANGED <<fsv, USER_SKILLS_DIRS, order, idx, dockerLocals, skills, results,
                   exitCode, out, raisedIn, ghosts>>

\* finally: skill_module.USER_SKILLS_DIRS = original_dirs
\* (a NameError when the import failed and skill_module was never bound)
DockerRestoreDirs ==
    /\ pc = "d_restore_dirs"
    /\ pc' = "d_cleanup"
    /\ IF skill_module
       THEN /\ USER_SKILLS_DIRS' = RestoreDirs(original_dirs, USER_SKILLS_DIRS)
            /\ UNCHANGED <<pending, raisedIn>>
       ELSE /\ pending' = "exc"
            /\ raisedIn' = "docker"
            /\ UNCHANGED USER_SKILLS_DIRS
    /\ UNCHANGED <<fsv, PathHome, order, idx, original_home, original_dirs,
                   skill_module, retval, skills, results, exitCode, out, ghosts>>

\* the with block is left: the temporary tree is removed, then the return
\* value or the exception reaches main
DockerCleanup ==
    /\ pc = "d_cleanup"
    /\ LET r == RmTree(files, disk, tmpdir) IN
          /\ files' = r.files
          /\ disk' = r.disk
    /\ IF AfterWith(pending) = "crashed"
       THEN /\ Crash("docker")
            /\ UNCHANGED <<idx, out, docker_fails>>
       ELSE /\ docker_fails' = retval
            /\ Return("docker")
            /\ UNCHANGED <<exitCode, raisedIn>>
    /\ UNCHANGED <<globals, order, dockerLocals, skills, host_works, user_count, ghosts>>

\* ------------------------------------------------------ full-service scenario
\* home_dir = Path.home(); create_test_skills(home_dir/".openhands"/"skills")
FullCreate ==
    /\ pc = "f_create"
    /\ \E stage \in 0..NumStages :
          LET r == CreateTestSkills(files, disk, SkillsDirOf(PathHome), stage) IN
          /\ files' = r.files
          /\ disk' = r.disk
          /\ IF stage = NumStages
             THEN pc' = "f_import" /\ UNCHANGED <<exitCode, raisedIn>>
             ELSE Crash("full")
    /\ UNCHANGED <<globals, order, idx, dockerLocals, skills, results, out, ghosts>>

\* from openhands.agent_server.skills_service import load_all_skills
FullImport ==
    /\ pc = "f_import"
    /\ \E ok \in BOOLEAN :
          IF ok
          THEN /\ USER_SKILLS_DIRS' = IF USER_SKILLS_DIRS = Unset
                                      THEN SeedDirs(PathHome) ELSE USER_SKILLS_DIRS
               /\ pc' = "f_load"
               /\ UNCHANGED <<exitCode, raisedIn>>
          ELSE /\ Crash("full")
               /\ UNCHANGED USER_SKILLS_DIRS
    /\ UNCHANGED <<fsv, PathHome, order, idx, dockerLocals, skills, results, out, ghosts>>

\* result = load_all_skills(load_user=True, every other source off)
FullLoad ==
    /\ pc = "f_load"
    /\ \E ok \in BOOLEAN :
          IF ok
          THEN /\ skills' = [skills EXCEPT !["full"] =
                     Cardinality(LoadUserSkills(files, disk, USER_SKILLS_DIRS))]
               /\ pc' = "f_ret"
               /\ UNCHANGED <<exitCode, raisedIn>>
          ELSE /\ Crash("full")
               /\ UNCHANGED skills
    /\ UNCHANGED <<fsv, globals, order, idx, dockerLocals, results, out, ghosts>>

\* user_count = result.sources.get("user", 0); return user_count
FullReturn ==
    /\ pc = "f_ret"
    /\ user_count' = skills["full"]
    /\ Return("full")
    /\ UNCHANGED <<fsv, globals, order, dockerLocals, skills, host_works,
                   docker_fails, exitCode, raisedIn, ghosts>>

\* ---------------------------------------------------------- specifications
Next ==
    \/ MainCall
    \/ HostCreate \/ HostImport \/ HostLoad \/ HostReturn
    \/ DockerMkdtemp \/ DockerMkdir \/ DockerCreate \/ DockerPatchHome
    \/ DockerImport \/ DockerPatchDirs \/ DockerLoad \/ DockerResult
    \/ DockerRestoreHome \/ DockerRestoreDirs \/ DockerCleanup
    \/ FullCreate \/ FullImport \/ FullLoad \/ FullReturn
    \/ Report
    \/ Exit

\* the script as written
Spec == Init /\ [][Next]_vars

Orders == {o \in [1..3 -> Scenarios] : \A s \in Scenarios : \E i \in 1..3 : o[i] = s}

\* the same three scenario functions called in any order
InitAnyOrder == \E o \in Orders : InitWith(o)
SpecAnyOrder == InitAnyOrder /\ [][Next]_vars

TypeOK ==
    /\ pc \in {"main", "exit", "done", "crashed", "h_create", "h_import", "h_load",
               "h_ret", "d_tmp", "d_mkdir", "d_create", "d_patch_home", "d_import",
               "d_patch_dirs", "d_load", "d_result", "d_restore_home",
               "d_restore_dirs", "d_cleanup", "f_create", "f_import", "f_load", "f_ret"}
    /\ exitCode \in {-1, 0, 1}
    /\ pending \in {"none", "exc", "ret"}
    /\ idx \in 1..4

\* ------------------------------------------------------------- properties
InOut(e) == \E i \in 1..Len(out) : out[i] = e

HostLabels == {"h_create", "h_import", "h_load", "h_ret"}
FullLabels == {"f_create", "f_import", "f_load", "f_ret"}
DockerLabels == {"d_tmp", "d_mkdir", "d_create", "d_patch_home", "d_import",
                 "d_patch_dirs", "d_load", "d_result", "d_restore_home",
                 "d_restore_dirs", "d_cleanup"}
DockerEnded == InOut(<<"call", "docker">>) /\ pc \notin DockerLabels

HomeSkills == SkillsDirOf(RealHome)
HomeMicro == MicroagentsDirOf(RealHome)

\* C1: once the container scenario has ended, by a return or by an exception,
\* Path.home and USER_SKILLS_DIRS have the values they had when it was called
C1_GlobalsRestored ==
    DockerEnded => (PathHome = pre.home /\ USER_SKILLS_DIRS = pre.dirs)

\* the loader raised inside the try block and the scenario has ended
C1_Witness ==
    /\ pc = "crashed"
    /\ raisedIn = "docker"
    /\ original_dirs # Unset
    /\ PathHome = pre.home
    /\ USER_SKILLS_DIRS = pre.dirs

C3_ContainerLoadsNothing ==
    /\ pc = "d_load" =>
          /\ \A n \in FixtureNames : files[mount_skills_dir][n] = FixtureText(n)
          /\ \A d \in FileDirs : \A n \in Names :
                (IsUnder(d, tmpdir) /\ files[d][n] # Absent) => d = mount_skills_dir
          /\ USER_SKILLS_DIRS = <<SkillsDirOf(fake_home), MicroagentsDirOf(fake_home)>>
    /\ pc = "d_result" => skills["docker"] = 0
    /\ InOut(<<"ret", "docker">>) => docker_fails

C3_Witness ==
    InOut(<<"ret", "docker">>) /\ docker_fails /\ skills["docker"] = 0

NoOtherSkillFiles ==
    \A d \in {HomeSkills, HomeMicro} : \A n \in Names :
        files[d][n] # Absent => (d = HomeSkills /\ n \in {"deepsolve.md", "eda.md", "checkpoint.md"})

\* C4 as stated: in the host scenario the loader returns exactly as many
\* records as fixture files were written, whatever the home held before
C4_Original ==
    pc = "h_ret" => skills["host"] = NumFixtures

\* C4 amended: in the host scenario the loader returns at least as many
\* records as fixture files were written, and exactly that many when the
\* search-path directories of the home hold no other skill file
C4_AtLeastFixtures ==
    pc = "h_ret" =>
        /\ skills["host"] >= NumFixtures
        /\ NoOtherSkillFiles => skills["host"] = NumFixtures

C4_Witness ==
    pc = "h_ret" /\ skills["host"] > NumFixtures /\ ~NoOtherSkillFiles

\* C5: a second complete call of create_test_skills on a directory changes
\* nothing: the three fixture files keep their content and no file is added
C5_Idempotent ==
    /\ [](\A d \in FileDirs :
            LET once == CreateTestSkills(files, disk, d, NumStages)
                twice == CreateTestSkills(once.files, once.disk, d, NumStages)
            IN /\ twice = once
               /\ \A n \in FixtureNames : once.files[d][n] = FixtureText(n)
               /\ \A n \in Names \ FixtureNames : once.files[d][n] = files[d][n])
    /\ [][(pc = "f_create" /\ pc' = "f_import" /\ InOut(<<"ret", "host">>))
             => (files' = files /\ disk' = disk)]_vars

C5_Witness ==
    /\ pc = "f_import"
    /\ InOut(<<"ret", "host">>)
    /\ \A n \in FixtureNames : files[HomeSkills][n] = FixtureText(n)

\* C6: after an exception was raised in a scenario no later scenario is
\* called, the summary is not printed, sys.exit is not reached, and the
\* process ends with status 1
C6_ExceptionPropagates ==
    /\ raisedIn # "none" =>
          /\ out[Len(out)] = <<"call", raisedIn>>
          /\ ~InOut(<<"summary">>)
          /\ ~InOut(<<"exit">>)
          /\ pc \in {"crashed", "d_restore_home", "d_restore_dirs", "d_cleanup"}
          /\ exitCode # 0
    /\ pc = "crashed" => (raisedIn # "none" /\ exitCode = 1 /\ ~ENABLED Next)

C6_Witness ==
    /\ pc = "crashed"
    /\ raisedIn = "docker"
    /\ skill_module
    /\ exitCode = 1
    /\ ~InOut(<<"call", "full">>)

\* C7: when main has reached sys.exit, host, container and full-service
\* scenario each ran once, in that order, then the summary, then the exit
C7_FixedOrder ==
    InOut(<<"exit">>) =>
        out = << <<"call", "host">>, <<"ret", "host">>,
                 <<"call", "docker">>, <<"ret", "docker">>,
                 <<"call", "full">>, <<"ret", "full">>,
                 <<"summary">>, <<"exit">> >>

C7_Witness ==
    pc = "done" /\ Len(out) = 8

\* C8: the two globals differ from their original values only between the
\* override and the cleanup of the container scenario; the host and the
\* full-service scenario see the original resolver and search path
C8_OnlyContainerSubstitutes ==
    /\ (PathHome # RealHome \/ USER_SKILLS_DIRS \notin {Unset, SeedDirs(RealHome)})
          => pc \in {"d_import", "d_patch_dirs", "d_load", "d_result",
                     "d_restore_home", "d_restore_dirs"}
    /\ pc \in HostLabels \cup FullLabels => PathHome = RealHome
    /\ pc \in {"h_load", "f_load"} => USER_SKILLS_DIRS = SeedDirs(RealHome)

C8_Witness ==
    /\ pc = "f_load"
    /\ InOut(<<"ret", "docker">>)
    /\ PathHome = RealHome
    /\ USER_SKILLS_DIRS = SeedDirs(RealHome)

\* the results of the three scenarios run in the order of main, computed from
\* the initial file system
CanonHome == CreateTestSkills(init0.files, init0.disk, HomeSkills, NumStages)
CanonTmp == CreateTestSkills(CanonHome.files, CanonHome.disk \cup {tmpdir, fake_home},
                             mount_skills_dir, NumStages)
CanonResults ==
    [host   |-> Cardinality(LoadUserSkills(CanonHome.files, CanonHome.disk,
                                           SeedDirs(RealHome))) > 0,
     docker |-> Cardinality(LoadUserSkills(CanonTmp.files, CanonTmp.disk,
                                           PatchedDirs(fake_home))) = 0,
     full   |-> Cardinality(LoadUserSkills(CanonHome.files, CanonHome.disk,
                                           SeedDirs(RealHome)))]
Results == [host |-> host_works, docker |-> docker_fails, full |-> user_count]

\* C9 as stated: under every order of the three scenarios each scenario has
\* the result it has in the order of main
C9_Original ==
    pc = "done" => Results = CanonResults

\* C9 amended: under every order in which the container scenario is not the
\* first one each scenario has the result it has in the order of main; when
\* the container scenario runs first the host scenario fails and the
\* full-service scenario counts no user skill
C9_OrderInsensitiveUnlessContainerFirst ==
    pc = "done" =>
        IF order[1] # "docker"
        THEN Results = CanonResults
        ELSE Results = [host |-> FALSE, docker |-> TRUE, full |-> 0]

C9_Witness ==
    pc = "done" /\ order = [i \in 1..3 |-> <<"full", "docker", "host">>[i]] /\ host_works

\* C10: no file of the home skills directory is ever removed and the fixtures
\* of a finished host scenario exist when the process ends; the temporary
\* tree is gone once the container scenario has ended, and it is removed only
\* when both globals have their pre-scenario values again
C10_FixtureLifecycle ==
    /\ [](DockerEnded =>
            /\ \A d \in disk : ~IsUnder(d, tmpdir)
            /\ \A d \in FileDirs : IsUnder(d, tmpdir) =>
                  \A n \in Names : files[d][n] = Absent)
    /\ []((pc \in {"done", "crashed"} /\ InOut(<<"ret", "host">>)) =>
            \A n \in FixtureNames : files[HomeSkills][n] = FixtureText(n))
    /\ [][\A n \in Names :
            files[HomeSkills][n] # Absent => files'[HomeSkills][n] # Absent]_vars
    /\ [][(tmpdir \in disk /\ tmpdir \notin disk')
            => (PathHome = pre.home /\ USER_SKILLS_DIRS = pre.dirs)]_vars

C10_Witness ==
    /\ pc = "crashed"
    /\ raisedIn = "docker"
    /\ pending = "exc"
    /\ tmpdir \notin disk
    /\ InOut(<<"ret", "host">>)
    /\ \A n \in FixtureNames : files[HomeSkills][n] = FixtureText(n)

====
